---- MODULE Spec2Model ----
(***************************************************************************)
(* Model of the x4a-core services: the request proxy (server.js), the      *)
(* per-agent query service (agent-server.js) and the client library's      *)
(* queryAgent (sdk/test.js).  Each behaviour is one run of one Node        *)
(* process (the two services share no state), driven by client requests    *)
(* and by the replies of the upstream completion API.                      *)
(***************************************************************************)
EXTENDS Integers, Sequences, FiniteSets, TLC

VARIABLES
    proc,       \* which script this run launched: "server.js" or "agent-server.js"
    apiKey,     \* process.env.XAI_API_KEY of the proxy
    pPc,        \* proxy handler position: "idle", "awaiting" (suspended in fetch), "done"
    pReq,       \* req.body of the request being handled
    pUp,        \* what the upstream completion API answered to this request
    pCalls,     \* outbound fetch calls made for this request
    pResp,      \* response sent for this request
    argvId,     \* process.argv[2] of the agent service
    aState,     \* agent process: "starting", "listening", "crashed"
    aPort,      \* the port handed to app.listen
    aPc,        \* agent request position: "idle", "routing", "awaiting", "done"
    aLayer,     \* index in the Express stack of the layer that handles the request next
    aReq,       \* req.body of the request being handled
    aGate,      \* verdict of the payment gate for this request: "none", "pass", "fail"
    aHandlerRan,\* TRUE once the /query handler has started for this request
    aUp,        \* what the completion client returned to this request
    aCalls,     \* completion calls made for this request
    aResp,      \* response sent for this request
    aPrevFail,  \* response sent to the previous request whose completion call raised
    sdkOpts,    \* options.agentPortBase the client library was constructed with
    sdkPort,    \* port of the URL the last queryAgent sent its request to
    xaiModel,   \* process.env.XAI_MODEL of the proxy
    pModel,     \* model name in the body of the outbound request of this request
    sdkPc,      \* client library call: "idle", "waiting" (suspended in fetch), "settled"
    sdkCalls,   \* fetch calls made by the current client library call
    sdkResult   \* what the current client library call returned or threw

vars == <<proc, apiKey, pPc, pReq, pUp, pCalls, pResp, argvId, aState, aPort, aPc,
          aLayer, aReq, aGate, aHandlerRan, aUp, aCalls, aResp, aPrevFail,
          sdkOpts, sdkPort, xaiModel, pModel, sdkPc, sdkCalls, sdkResult>>

pVars == <<apiKey, pPc, pReq, pUp, pCalls, pResp, xaiModel, pModel>>
sVars == <<sdkPc, sdkCalls, sdkResult>>
aVars == <<argvId, aState, aPort, aPc, aLayer, aReq, aGate, aHandlerRan, aUp, aCalls,
           aResp, aPrevFail, sdkOpts, sdkPort>>

(***************************************************************************)
(* JavaScript values.  A string is a sequence of chunks (single characters *)
(* where the code looks inside it), so concatenation is \o and the empty   *)
(* string is << >>.                                                        *)
(***************************************************************************)
Undefined == [t |-> "undefined"]
Null == [t |-> "null"]
NaN == [t |-> "NaN"]
Str(s) == [t |-> "string", s |-> s]
Num(n) == [t |-> "number", n |-> n]
Obj(o) == [t |-> "object", o |-> o]
Arr(a) == [t |-> "array", a |-> a]

\* ToBoolean, as used by !x and x || y
Truthy(v) ==
    CASE v.t = "string" -> Len(v.s) > 0
      [] v.t = "number" -> v.n # 0
      [] v.t \in {"object", "array"} -> TRUE
      [] OTHER -> FALSE

\* obj.name on a value that is not null or undefined
Get(v, name) ==
    IF v.t = "object" /\ name \in DOMAIN v.o THEN v.o[name] ELSE Undefined

\* reading a property of null or undefined throws a TypeError
Nullish(v) == v.t \in {"undefined", "null"}

\* `${v}` inside a template literal
Template(v) ==
    CASE v.t = "string" -> v.s
      [] v.t = "number" -> <<ToString(v.n)>>
      [] OTHER -> <<v.t>>

\* outcome of a piece of code: a value, or a thrown Error with its message
Returned(v) == [threw |-> FALSE, value |-> v]
Threw(msg) == [threw |-> TRUE, message |-> msg]
TypeErrorMsg(what) == <<"TypeError: ", what>>

NoResp == [status |-> 0, body |-> [pending |-> TRUE]]
Reply(code, b) == [status |-> code, body |-> b]

(***************************************************************************)
(* The upstream completion API as the proxy sees it through node-fetch:    *)
(* the call rejects (network failure), or resolves with a status and a     *)
(* body that is JSON or not.                                               *)
(***************************************************************************)
Unparsable == [t |-> "unparsable"]
NetworkDetails == {<<"connect ECONNREFUSED">>, <<"socket hang up">>}
UpstreamMessages == {Undefined, Str(<< >>), Str(<<"rate limited">>), Str(<<"model overloaded">>)}
UpstreamErrors ==
    {Undefined, Str(<<"bad gateway">>)} \cup {Obj([message |-> m]) : m \in UpstreamMessages}
Contents == {Undefined, Null, Str(<< >>), Str(<<"bid 140.25">>), Num(5)}
Choices ==
    {Null, Obj([message |-> Undefined])} \cup {Obj([message |-> Obj([content |-> c])]) : c \in Contents}
ChoiceLists == {Undefined, Arr(<< >>)} \cup {Arr(<<c>>) : c \in Choices}
Bodies ==
    {Unparsable, Null}
    \cup {Obj([error |-> e, choices |-> Undefined]) : e \in UpstreamErrors}
    \cup {Obj([error |-> Undefined, choices |-> c]) : c \in ChoiceLists}
Statuses == {200, 401, 403, 404, 503}
UpstreamReplies ==
    {[kind |-> "reject", detail |-> d] : d \in NetworkDetails}
    \cup {[kind |-> "response", status |-> s, body |-> b] : s \in Statuses, b \in Bodies}
NoReply == [kind |-> "none"]

\* Response.ok of node-fetch
Ok(status) == status >= 200 /\ status < 300

(***************************************************************************)
(* server.js: POST /api/grok                                               *)
(***************************************************************************)
ConfigErrorMsg == <<"X4A Protocol key not configured. Check your .env file.">>
MissingFieldsMsg == <<"Missing id or query in request body">>
SimulationFailedMsg == <<"Simulation failed.">>
AuthFailedMsg ==
    <<"Authentication Failed (401/403). Check if XAI_API_KEY is correct and active.">>
NotFoundMsg ==
    <<"API Endpoint Not Found (404). Check the API Status, the endpoint URL, or the specified model name.">>
FallbackResult == <<"{\"result\": \"X4A Agent: No data available.\"}">>

\* variant: only an unset variable counts as no key
KeyMissingUnsetOnly(key) == key = Undefined

KeyMissing(key) == ~Truthy(key)

\* variant: query is not checked
FieldsMissingIdOnly(body) == ~Truthy(body.id)

FieldsMissing(body) == ~Truthy(body.id) \/ ~Truthy(body.query)

\* the system prompt evaluates type.toUpperCase() while the fetch arguments are built
BuildPrompt(body) ==
    IF Nullish(body.type)
    THEN Threw(TypeErrorMsg("Cannot read properties of undefined (reading 'toUpperCase')"))
    ELSE IF body.type.t # "string"
    THEN Threw(TypeErrorMsg("type.toUpperCase is not a function"))
    ELSE Returned(Str(Template(body.id) \o <<": ">> \o Template(body.query)))

\* variant: 403 is not classified
ClassifyErrorNo403(status, errData) ==
    LET err == Get(errData, "error")
        msg == IF Nullish(err) THEN Undefined ELSE Get(err, "message")
        errorMessage == IF Truthy(msg) THEN Template(msg) ELSE SimulationFailedMsg
    IN  IF status = 401 THEN AuthFailedMsg
        ELSE IF status = 404 THEN NotFoundMsg
        ELSE errorMessage

\* errData.error?.message || 'Simulation failed.', then the status classification
ClassifyError(status, errData) ==
    LET err == Get(errData, "error")
        msg == IF Nullish(err) THEN Undefined ELSE Get(err, "message")
        errorMessage == IF Truthy(msg) THEN Template(msg) ELSE SimulationFailedMsg
    IN  IF status = 401 \/ status = 403 THEN AuthFailedMsg
        ELSE IF status = 404 THEN NotFoundMsg
        ELSE errorMessage

\* the !agentResponse.ok branch: always ends in a throw
UpstreamFailure(status, body) ==
    LET errData == IF body = Unparsable THEN Obj([error |-> Undefined]) ELSE body
    IN  IF Nullish(errData)
        THEN Threw(TypeErrorMsg("Cannot read properties of null (reading 'error')"))
        ELSE Threw(<<"X4A Protocol: ">> \o <<ToString(status)>> \o <<" - ">>
                   \o ClassifyError(status, errData))

\* data.choices[0]?.message?.content || fallback
Normalize(data) ==
    LET choices == Get(data, "choices")
        first == IF choices.t = "array" /\ Len(choices.a) >= 1 THEN choices.a[1] ELSE Undefined
        message == IF Nullish(first) THEN Undefined ELSE Get(first, "message")
        content == IF Nullish(message) THEN Undefined ELSE Get(message, "content")
    IN  IF Nullish(data)
        THEN Threw(TypeErrorMsg("Cannot read properties of null (reading 'choices')"))
        ELSE IF Nullish(choices)
        THEN Threw(TypeErrorMsg("Cannot read properties of undefined (reading '0')"))
        ELSE Returned(IF Truthy(content) THEN content ELSE Str(FallbackResult))

\* variant: the result is not logged through substring
LogResultAny(result) == Returned(result)

\* console.log(... result.substring(0, 100) ...) before the response is sent
LogResult(result) ==
    IF result.t = "string" THEN Returned(result)
    ELSE Threw(TypeErrorMsg("result.substring is not a function"))

\* the try block from the point where fetch settles
AfterFetch(up) ==
    IF up.kind = "reject" THEN Threw(up.detail)
    ELSE IF ~Ok(up.status) THEN UpstreamFailure(up.status, up.body)
    ELSE IF up.body = Unparsable THEN Threw(<<"invalid json response body">>)
    ELSE LET n == Normalize(up.body)
         IN  IF n.threw THEN n ELSE LogResult(n.value)

\* res.json({ result }) or the catch block
Respond(outcome) ==
    IF outcome.threw
    THEN Reply(500, [error |-> Str(<<"Agent simulation failed: ">> \o outcome.message)])
    ELSE Reply(200, [result |-> outcome.value])

IdValues == {Undefined, Null, Str(<< >>), Str(<<"RL-7">>)}
QueryValues == {Undefined, Str(<< >>), Str(<<"best bid?">>)}
TypeValues == {Undefined, Str(<< >>), Str(<<"pricing">>), Num(7)}
ProxyBodies == [id : IdValues, type : TypeValues, query : QueryValues]
EnvValues == {Undefined, Str(<< >>), Str(<<"xai-key">>)}

ModelValues == {Undefined, Str(<<"grok-3-mini">>)}

\* the model field of the outbound request body
RequestModel(env) == Str(<<"grok-4">>)

\* the handler up to its first await (or its early return)
ProxyHandle(body) ==
    /\ proc = "server.js"
    /\ pPc \in {"idle", "done"}
    /\ pReq' = body
    /\ pUp' = NoReply
    /\ IF KeyMissing(apiKey)
       THEN /\ pResp' = Reply(500, [error |-> Str(ConfigErrorMsg)])
            /\ pCalls' = 0
            /\ pModel' = Undefined
            /\ pPc' = "done"
       ELSE IF FieldsMissing(body)
       THEN /\ pResp' = Reply(400, [error |-> Str(MissingFieldsMsg)])
            /\ pCalls' = 0
            /\ pModel' = Undefined
            /\ pPc' = "done"
       ELSE IF BuildPrompt(body).threw
       THEN /\ pResp' = Respond(BuildPrompt(body))
            /\ pCalls' = 0
            /\ pModel' = Undefined
            /\ pPc' = "done"
       ELSE /\ pResp' = NoResp
            /\ pCalls' = 1
            /\ pModel' = RequestModel(xaiModel)
            /\ pPc' = "awaiting"
    /\ UNCHANGED <<proc, apiKey, xaiModel>>
    /\ UNCHANGED aVars

\* a POST /api/grok sent by a client other than the client library, once any
\* client library call is over
ProxyRequest(body) ==
    /\ sdkPc # "waiting"
    /\ ProxyHandle(body)
    /\ sdkPc' = "idle"
    /\ sdkCalls' = 0
    /\ sdkResult' = [threw |-> FALSE, pending |-> TRUE]

\* variant: a failed upstream call is attempted once more
ProxyUpstreamRetry(up) ==
    /\ proc = "server.js"
    /\ pPc = "awaiting"
    /\ pUp' = up
    /\ IF AfterFetch(up).threw /\ pCalls < 2
       THEN /\ pCalls' = pCalls + 1
            /\ UNCHANGED <<pResp, pPc>>
       ELSE /\ pResp' = Respond(AfterFetch(up))
            /\ pPc' = "done"
            /\ UNCHANGED pCalls
    /\ UNCHANGED <<proc, apiKey, pReq, xaiModel, pModel>>
    /\ UNCHANGED aVars
    /\ UNCHANGED sVars

\* fetch settles and the handler runs to its response
ProxyUpstream(up) ==
    /\ proc = "server.js"
    /\ pPc = "awaiting"
    /\ pUp' = up
    /\ pResp' = Respond(AfterFetch(up))
    /\ pPc' = "done"
    /\ UNCHANGED <<proc, apiKey, pReq, pCalls, xaiModel, pModel>>
    /\ UNCHANGED aVars
    /\ UNCHANGED sVars

(***************************************************************************)
(* Port derivation, shared in form by agent-server.js and the client       *)
(* library: parseInt(agentId.slice(-4)) % 1000 added to a base port.       *)
(***************************************************************************)
MaxIdLen == 3
AgentBasePort == 4021
SdkDefaultPortBase == 4021

Alphabet == {"0", "7", "-", "x"}
NamedIds ==
    { <<"R","L","-","A","g","e","n","t","-","0","0","0","7">>,
      <<"X","-","0","9","9","9">>,
      <<"R","L","-","A","g","e","n","t","-","7">>,
      <<"R","L","-","A","g","e","n","t","-","4","2">>,
      <<"A","-","1","2","3","4">>,
      <<"A","0","x","7","9">>,
      <<"B","-","-","0","0","7">>,
      <<"C","9","9","x","7">> }
AgentIdStrings == UNION {[1..n -> Alphabet] : n \in 0..MaxIdLen} \cup NamedIds
DefaultAgentId == <<"R","L","-","A","g","e","n","t","-","7">>

\* String.prototype.slice(-4)
SliceLast4(s) == IF Len(s) <= 4 THEN s ELSE SubSeq(s, Len(s) - 3, Len(s))

DigitChars == <<"0","1","2","3","4","5","6","7","8","9","a","b","c","d","e","f">>
UpperDigitChars == <<"0","1","2","3","4","5","6","7","8","9","A","B","C","D","E","F">>
WhiteSpace == {" ", "\t", "\n"}

\* value of a character as a digit in the given radix, or -1
DigitOf(c, radix) ==
    LET hits == {i \in 1..radix : DigitChars[i] = c \/ UpperDigitChars[i] = c}
    IN  IF hits = {} THEN -1 ELSE (CHOOSE i \in hits : TRUE) - 1

RECURSIVE TrimLeft(_)
TrimLeft(s) ==
    IF Len(s) > 0 /\ Head(s) \in WhiteSpace THEN TrimLeft(Tail(s)) ELSE s

\* number of leading characters of s that are digits in the radix
RECURSIVE DigitPrefixLen(_, _)
DigitPrefixLen(s, radix) ==
    IF Len(s) = 0 \/ DigitOf(Head(s), radix) < 0 THEN 0
    ELSE 1 + DigitPrefixLen(Tail(s), radix)

RECURSIVE DigitsValue(_, _)
DigitsValue(s, radix) ==
    IF Len(s) = 0 THEN 0
    ELSE DigitsValue(SubSeq(s, 1, Len(s) - 1), radix) * radix + DigitOf(s[Len(s)], radix)

\* parseInt(string) with no radix argument
ParseInt(s) ==
    LET t == TrimLeft(s)
        signed == Len(t) > 0 /\ t[1] \in {"-", "+"}
        sign == IF Len(t) > 0 /\ t[1] = "-" THEN -1 ELSE 1
        u == IF signed THEN Tail(t) ELSE t
        hex == Len(u) >= 2 /\ u[1] = "0" /\ u[2] \in {"x", "X"}
        radix == IF hex THEN 16 ELSE 10
        digits == IF hex THEN SubSeq(u, 3, Len(u)) ELSE u
        n == DigitPrefixLen(digits, radix)
    IN  IF n = 0 THEN NaN ELSE Num(sign * DigitsValue(SubSeq(digits, 1, n), radix))

\* the % operator on integers: the result takes the sign of the dividend
JsRem(a, b) == IF a >= 0 THEN a % b ELSE -((-a) % b)

\* a + b and a % b where an operand may be NaN
JsMod(v, m) == IF v.t = "number" THEN Num(JsRem(v.n, m)) ELSE NaN
JsAdd(a, v) == IF v.t = "number" THEN Num(a + v.n) ELSE NaN

\* agent-server.js: const AGENT_ID = agentId || 'RL-Agent-7'
AgentId(arg) == IF Truthy(arg) THEN arg ELSE Str(DefaultAgentId)

\* variant: the offset is not reduced mod 1000
ServicePortNoMod(id) == JsAdd(AgentBasePort, ParseInt(SliceLast4(id.s)))

\* variant: an offset that is NaN falls back to the base port
ServicePortFallback(id) ==
    LET off == JsMod(ParseInt(SliceLast4(id.s)), 1000)
    IN  IF off = NaN THEN Num(AgentBasePort) ELSE JsAdd(AgentBasePort, off)

\* agent-server.js: const port = 4021 + parseInt(AGENT_ID.slice(-4)) % 1000
ServicePort(id) == JsAdd(AgentBasePort, JsMod(ParseInt(SliceLast4(id.s)), 1000))

\* sdk: this.agentPortBase = options.agentPortBase || 4021
SdkPortBase(opt) == IF Truthy(opt) THEN opt.n ELSE SdkDefaultPortBase

\* variant: the client looks at the last three characters only
ClientPortLast3(opt, id) ==
    LET s == id.s
        last3 == IF Len(s) <= 3 THEN s ELSE SubSeq(s, Len(s) - 2, Len(s))
    IN  JsAdd(SdkPortBase(opt), JsMod(ParseInt(last3), 1000))

\* sdk queryAgent: this.agentPortBase + parseInt(agentId.slice(-4)) % 1000
ClientPort(opt, id) == JsAdd(SdkPortBase(opt), JsMod(ParseInt(SliceLast4(id.s)), 1000))

\* app.listen(port): Node refuses a port that is not an integer in 0..65535
Listen(port) ==
    IF port.t = "number" /\ port.n >= 0 /\ port.n <= 65535 THEN "listening" ELSE "crashed"

(***************************************************************************)
(* sdk/test.js: the REST methods of the client library                     *)
(***************************************************************************)
NoResult == [threw |-> FALSE, pending |-> TRUE]
SdkIds == {Undefined, Str(<<"RL-7">>)}
SdkTypes == {Undefined, Str(<<"pricing">>)}

\* res.text() of an error response: its JSON body { error } as text
ResponseText(body) == <<"{\"error\":\"">> \o body.error.s \o <<"\"}">>

\* _apiRequest after fetch resolved
ApiResult(resp) ==
    IF ~Ok(resp.status)
    THEN Threw(<<"API error: ", ToString(resp.status), " - ">> \o ResponseText(resp.body))
    ELSE Returned(resp.body)

\* queryAgent after fetch resolved
QueryAgentResult(resp) ==
    IF ~Ok(resp.status)
    THEN Threw(<<"Agent query error: ", ToString(resp.status)>>)
    ELSE Returned(resp.body)

\* fetch rejecting: the URL has no valid port, or nothing listens on it
FetchRejected(port) ==
    IF port.t = "number"
    THEN Threw(<<"request to http://localhost:", ToString(port.n),
                 "/query failed, reason: connect ECONNREFUSED">>)
    ELSE Threw(TypeErrorMsg("Invalid URL"))

\* JSON.stringify({ id, type }): the body submitGrokQuery posts, as the proxy parses it
GrokQueryBody(id, type) == [id |-> id, type |-> type, query |-> Undefined]

\* submitGrokQuery(id, type): POST /api/grok through _apiRequest
SdkSubmitGrokQuery(id, type) ==
    /\ sdkPc \in {"idle", "settled"}
    /\ ProxyHandle(GrokQueryBody(id, type))
    /\ sdkPc' = "waiting"
    /\ sdkCalls' = 1
    /\ sdkResult' = NoResult

\* _apiRequest resumes with the proxy's response
SdkApiResponse ==
    /\ proc = "server.js"
    /\ sdkPc = "waiting"
    /\ pPc = "done"
    /\ sdkResult' = ApiResult(pResp)
    /\ sdkPc' = "settled"
    /\ UNCHANGED sdkCalls
    /\ UNCHANGED <<proc, pVars, aVars>>

(***************************************************************************)
(* agent-server.js                                                         *)
(***************************************************************************)
AgentFailedMsg == <<"Agent execution failed due to internal error.">>
AgentName == <<"CMAA Arbitrage Hunter">>
PaymentRequiredMsg == <<"X-PAYMENT header is required">>
ApiErrorDetails == {<<"401 Incorrect API key provided">>, <<"429 Rate limit reached">>}
Completions ==
    {[kind |-> "reject", detail |-> d] : d \in ApiErrorDetails}
    \cup {[kind |-> "response", body |-> Obj([choices |-> c])] : c \in ChoiceLists}
SdkOptions == {Undefined, Num(0), Num(4021), Num(5000)}
ArgvIds == {Undefined} \cup {Str(s) : s \in AgentIdStrings}
NoPort == [t |-> "none"]
NoFail == [seen |-> FALSE]

\* variant: the route is registered before the payment middleware
StackHandlerFirst == <<"express.json", "POST /query", "paymentMiddleware">>

\* the middleware and routes in the order the script registers them
Stack == <<"express.json", "paymentMiddleware", "POST /query">>

\* the script's top level: derive the port and listen on it
AgentStart ==
    /\ proc = "agent-server.js"
    /\ aState = "starting"
    /\ aPort' = ServicePort(AgentId(argvId))
    /\ aState' = Listen(ServicePort(AgentId(argvId)))
    /\ UNCHANGED <<proc, argvId, aPc, aLayer, aReq, aGate, aHandlerRan, aUp, aCalls,
                   aResp, aPrevFail, sdkOpts, sdkPort>>
    /\ UNCHANGED pVars
    /\ UNCHANGED sVars

\* sdk queryAgent(agentId, query) for the agent this process runs as: the request
\* reaches the service when it listens on the port of the URL
SdkQueryAgent(query) ==
    /\ proc = "agent-server.js"
    /\ aState \in {"listening", "crashed"}
    /\ aPc \in {"idle", "done"}
    /\ sdkPc \in {"idle", "settled"}
    /\ sdkCalls' = 1
    /\ sdkPort' = ClientPort(sdkOpts, AgentId(argvId))
    /\ aPrevFail' = IF aPc = "done" /\ aUp.kind = "reject"
                    THEN [seen |-> TRUE, detail |-> aUp.detail, resp |-> aResp]
                    ELSE aPrevFail
    /\ aUp' = NoReply
    /\ aCalls' = 0
    /\ aGate' = "none"
    /\ aHandlerRan' = FALSE
    /\ aResp' = NoResp
    /\ IF aState = "listening" /\ aPort = ClientPort(sdkOpts, AgentId(argvId))
       THEN /\ aReq' = [query |-> query]
            /\ aLayer' = 1
            /\ aPc' = "routing"
            /\ sdkPc' = "waiting"
            /\ sdkResult' = NoResult
       ELSE /\ aReq' = [query |-> Undefined]
            /\ aLayer' = 0
            /\ aPc' = "idle"
            /\ sdkPc' = "settled"
            /\ sdkResult' = FetchRejected(ClientPort(sdkOpts, AgentId(argvId)))
    /\ UNCHANGED <<proc, argvId, aState, aPort, sdkOpts>>
    /\ UNCHANGED pVars

\* queryAgent resumes with the agent service's response
SdkAgentResponse ==
    /\ proc = "agent-server.js"
    /\ sdkPc = "waiting"
    /\ aPc = "done"
    /\ sdkResult' = QueryAgentResult(aResp)
    /\ sdkPc' = "settled"
    /\ UNCHANGED sdkCalls
    /\ UNCHANGED <<proc, pVars, aVars>>

\* express.json(): parse the body, next()
AgentJson ==
    /\ proc = "agent-server.js"
    /\ aPc = "routing"
    /\ Stack[aLayer] = "express.json"
    /\ aLayer' = aLayer + 1
    /\ UNCHANGED <<proc, argvId, aState, aPort, aPc, aReq, aGate, aHandlerRan, aUp,
                   aCalls, aResp, aPrevFail, sdkOpts, sdkPort>>
    /\ UNCHANGED pVars
    /\ UNCHANGED sVars

\* paymentMiddleware: next() when the payment is confirmed, else its own rejection
AgentPayment(paid) ==
    /\ proc = "agent-server.js"
    /\ aPc = "routing"
    /\ Stack[aLayer] = "paymentMiddleware"
    /\ IF paid
       THEN /\ aGate' = "pass"
            /\ aLayer' = aLayer + 1
            /\ UNCHANGED <<aPc, aResp>>
       ELSE /\ aGate' = "fail"
            /\ aResp' = Reply(402, [error |-> Str(PaymentRequiredMsg)])
            /\ aPc' = "done"
            /\ UNCHANGED aLayer
    /\ UNCHANGED <<proc, argvId, aState, aPort, aReq, aHandlerRan, aUp, aCalls,
                   aPrevFail, sdkOpts, sdkPort>>
    /\ UNCHANGED pVars
    /\ UNCHANGED sVars

\* app.post('/query') up to its await of openai.chat.completions.create
AgentQuery ==
    /\ proc = "agent-server.js"
    /\ aPc = "routing"
    /\ Stack[aLayer] = "POST /query"
    /\ aHandlerRan' = TRUE
    /\ aCalls' = aCalls + 1
    /\ aPc' = "awaiting"
    /\ UNCHANGED <<proc, argvId, aState, aPort, aLayer, aReq, aGate, aUp, aResp,
                   aPrevFail, sdkOpts, sdkPort>>
    /\ UNCHANGED pVars
    /\ UNCHANGED sVars

\* completion.choices[0].message.content
FirstContent(completion) ==
    LET choices == Get(completion, "choices")
        first == IF choices.t = "array" /\ Len(choices.a) >= 1 THEN choices.a[1] ELSE Undefined
        message == IF Nullish(first) THEN Undefined ELSE Get(first, "message")
    IN  IF Nullish(choices)
        THEN Threw(TypeErrorMsg("Cannot read properties of undefined (reading '0')"))
        ELSE IF Nullish(first)
        THEN Threw(TypeErrorMsg("Cannot read properties of undefined (reading 'message')"))
        ELSE IF Nullish(message)
        THEN Threw(TypeErrorMsg("Cannot read properties of undefined (reading 'content')"))
        ELSE Returned(Get(message, "content"))

\* the try block from the point where the completion call settles
AfterCompletion(up) ==
    IF up.kind = "reject" THEN Threw(up.detail) ELSE FirstContent(up.body)

\* variant: the catch block reports the error's message
AgentErrorLeaky(outcome) == Reply(500, [error |-> Str(outcome.message)])

\* the catch block's response
AgentError(outcome) == Reply(500, [error |-> Str(AgentFailedMsg)])

\* res.json({ agentId, agentName, result }) or the catch block
AgentRespond(id, outcome) ==
    IF outcome.threw
    THEN AgentError(outcome)
    ELSE Reply(200, [agentId |-> id, agentName |-> Str(AgentName), result |-> outcome.value])

\* the completion call settles and the handler runs to its response
AgentCompletion(up) ==
    /\ proc = "agent-server.js"
    /\ aPc = "awaiting"
    /\ aUp' = up
    /\ aResp' = AgentRespond(AgentId(argvId), AfterCompletion(up))
    /\ aPc' = "done"
    /\ UNCHANGED <<proc, argvId, aState, aPort, aLayer, aReq, aGate, aHandlerRan,
                   aCalls, aPrevFail, sdkOpts, sdkPort>>
    /\ UNCHANGED pVars
    /\ UNCHANGED sVars

(***************************************************************************)
(* Specification                                                           *)
(***************************************************************************)
Init ==
    /\ proc \in {"server.js", "agent-server.js"}
    /\ apiKey \in (IF proc = "server.js" THEN EnvValues ELSE {Undefined})
    /\ xaiModel \in (IF proc = "server.js" THEN ModelValues ELSE {Undefined})
    /\ pModel = Undefined
    /\ sdkPc = "idle"
    /\ sdkCalls = 0
    /\ sdkResult = NoResult
    /\ pPc = "idle"
    /\ pReq = [id |-> Undefined, type |-> Undefined, query |-> Undefined]
    /\ pUp = NoReply
    /\ pCalls = 0
    /\ pResp = NoResp
    /\ argvId \in (IF proc = "agent-server.js" THEN ArgvIds ELSE {Undefined})
    /\ aState = "starting"
    /\ aPort = NoPort
    /\ aPc = "idle"
    /\ aLayer = 0
    /\ aReq = [query |-> Undefined]
    /\ aGate = "none"
    /\ aHandlerRan = FALSE
    /\ aUp = NoReply
    /\ aCalls = 0
    /\ aResp = NoResp
    /\ aPrevFail = NoFail
    /\ sdkOpts \in (IF proc = "agent-server.js" THEN SdkOptions ELSE {Undefined})
    /\ sdkPort = NoPort

Next ==
    \/ \E body \in ProxyBodies : ProxyRequest(body)
    \/ \E up \in UpstreamReplies : ProxyUpstream(up)
    \/ \E id \in SdkIds, type \in SdkTypes : SdkSubmitGrokQuery(id, type)
    \/ SdkApiResponse
    \/ SdkAgentResponse
    \/ AgentStart
    \/ \E query \in QueryValues : SdkQueryAgent(query)
    \/ AgentJson
    \/ \E paid \in BOOLEAN : AgentPayment(paid)
    \/ AgentQuery
    \/ \E up \in Completions : AgentCompletion(up)

Spec == Init /\ [][Next]_vars

(***************************************************************************)
(* Properties                                                              *)
(***************************************************************************)
\* a request field that is missing or empty
Absent(v) == v \in {Undefined, Null, Str(<< >>)}
ProxyDone == proc = "server.js" /\ pPc = "done"
KeyConfigured == apiKey \notin {Undefined, Str(<< >>)}
HasError(resp) == "error" \in DOMAIN resp.body
HasResult(resp) == "result" \in DOMAIN resp.body

\* C1 (as stated): every POST /api/grok whose id or query is missing or empty is
\* answered with HTTP 400 and an error field, never 500, whatever the configuration.
C1_AsStated ==
    ProxyDone /\ (Absent(pReq.id) \/ Absent(pReq.query))
        => pResp.status = 400 /\ HasError(pResp)

\* C1 (amended): with the upstream API key configured, every POST /api/grok whose
\* id or query is missing or empty is answered with HTTP 400 and an error field.
C1_MissingFields400 ==
    ProxyDone /\ KeyConfigured /\ (Absent(pReq.id) \/ Absent(pReq.query))
        => pResp.status = 400 /\ HasError(pResp) /\ pCalls = 0

C1_Witness ==
    /\ ProxyDone /\ KeyConfigured
    /\ ~Absent(pReq.id) /\ Absent(pReq.query)
    /\ pResp.status = 400

\* C2: with the upstream API key not configured, every POST /api/grok, whatever its
\* body, is answered with HTTP 500 and the exact configuration-error message, and
\* no outbound call is made for it.
C2_NoKey500 ==
    proc = "server.js" /\ ~KeyConfigured
        => /\ pPc # "awaiting"
           /\ pCalls = 0
           /\ pPc = "done" =>
                pResp = Reply(500, [error |->
                    Str(<<"X4A Protocol key not configured. Check your .env file.">>)])

C2_Witness ==
    /\ ProxyDone /\ apiKey = Str(<< >>)
    /\ ~Absent(pReq.id) /\ ~Absent(pReq.query) /\ pReq.type.t = "string"
    /\ pResp.status = 500

\* C3 (as stated): every POST /api/grok with a present, non-empty id and query gets
\* a response body with a result key whose value is a string.
C3_AsStated ==
    ProxyDone /\ ~Absent(pReq.id) /\ ~Absent(pReq.query)
        => HasResult(pResp) /\ pResp.body.result.t = "string"

\* C3 (amended): every POST /api/grok with a present, non-empty id and query is
\* answered either with HTTP 200 and a result that is a string, or with HTTP 500
\* and an error field and no result.
C3_ResultIsString ==
    ProxyDone /\ ~Absent(pReq.id) /\ ~Absent(pReq.query)
        => \/ pResp.status = 200 /\ HasResult(pResp) /\ pResp.body.result.t = "string"
           \/ pResp.status = 500 /\ HasError(pResp) /\ ~HasResult(pResp)

C3_Witness ==
    /\ ProxyDone /\ pResp.status = 200
    /\ pUp.kind = "response"
    /\ pResp.body.result = Str(<<"bid 140.25">>)

\* the message the claim expects for a non-success upstream status
UpstreamOwnMessage(body) ==
    IF body.t = "object" /\ body.o.error.t = "object" /\ ~Absent(body.o.error.o.message)
    THEN body.o.error.o.message.s
    ELSE <<"Simulation failed.">>
C4_Message(status, body) ==
    IF status \in {401, 403}
    THEN <<"Authentication Failed (401/403). Check if XAI_API_KEY is correct and active.">>
    ELSE IF status = 404
    THEN <<"API Endpoint Not Found (404). Check the API Status, the endpoint URL, or the specified model name.">>
    ELSE UpstreamOwnMessage(body)
UpstreamFailed == ProxyDone /\ pUp.kind = "response" /\ (pUp.status < 200 \/ pUp.status > 299)

\* C4 (as stated): for every non-success upstream status s the proxy answers 500
\* with body { error: m }, m the classified message.
C4_AsStated ==
    UpstreamFailed => pResp = Reply(500, [error |-> Str(C4_Message(pUp.status, pUp.body))])

\* C4 (amended): for every non-success upstream status s the proxy answers 500 (never
\* s) with body { error: "Agent simulation failed: X4A Protocol: <s> - <m>" }, m the
\* classified message; when the upstream error body is the JSON value null the error
\* is "Agent simulation failed: " followed by the TypeError of reading it.
C4_ClassifiedError ==
    UpstreamFailed =>
        /\ pResp.status = 500
        /\ pUp.body # Null =>
             pResp.body = [error |-> Str(<<"Agent simulation failed: ", "X4A Protocol: ",
                                           ToString(pUp.status), " - ">>
                                         \o C4_Message(pUp.status, pUp.body))]
        /\ pUp.body = Null =>
             /\ HasError(pResp)
             /\ pResp.body.error.s[1] = "Agent simulation failed: "
             /\ pResp.body.error.s[2] = "TypeError: "

C4_Witness ==
    /\ UpstreamFailed /\ pUp.status = 403
    /\ pUp.body.t = "object" /\ pUp.body.o.error.t = "object"
    /\ pUp.body.o.error.o.message = Str(<<"rate limited">>)
    /\ pResp.status = 500

\* C5: an upstream success whose choice list is empty or absent is answered with the
\* fixed fallback placeholder as result, not through the error path.
C5_FallbackOnNoChoices ==
    /\ ProxyDone /\ pUp.kind = "response" /\ pUp.status = 200
    /\ pUp.body.t = "object" /\ pUp.body.o.choices \in {Undefined, Arr(<< >>)}
    => pResp = Reply(200, [result |-> Str(<<"{\"result\": \"X4A Agent: No data available.\"}">>)])

AgentRun == proc = "agent-server.js"

\* C6: in the agent service the payment gate runs before the query handler; when the
\* gate reports failure the handler does not execute and the completion API is
\* never called for that request.
C6_GateBeforeHandler ==
    AgentRun =>
        /\ aHandlerRan => aGate = "pass"
        /\ aCalls > 0 => aGate = "pass"
        /\ aGate = "fail" => ~aHandlerRan /\ aCalls = 0 /\ aUp = NoReply /\ aPc = "done"

C6_Witness ==
    AgentRun /\ aGate = "fail" /\ aPc = "done" /\ aResp.status = 402 /\ aCalls = 0

\* C7: whenever the completion call raises, the agent service answers 500 with the one
\* generic error body, the same for two failures that differ in their detail; the
\* proxy's error body carries the detail of the failure.
C7_GenericAgentError ==
    /\ AgentRun /\ aPc = "done" /\ aUp.kind = "reject" =>
         /\ aResp = Reply(500, [error |->
                Str(<<"Agent execution failed due to internal error.">>)])
         /\ aPrevFail.seen => aResp = aPrevFail.resp
    /\ ProxyDone /\ pUp.kind = "reject" =>
         /\ pResp.status = 500
         /\ pResp.body.error.s = <<"Agent simulation failed: ">> \o pUp.detail

C7_Witness ==
    /\ AgentRun /\ aPc = "done" /\ aUp.kind = "reject"
    /\ aPrevFail.seen /\ aPrevFail.detail # aUp.detail
    /\ aResp.status = 500

\* decimal value of a string of the digits the model's ids use
DecimalDigit(c) == CASE c = "0" -> 0 [] c = "1" -> 1 [] c = "2" -> 2 [] c = "3" -> 3
                     [] c = "4" -> 4 [] c = "7" -> 7 [] c = "9" -> 9
DecimalChars == {"0", "1", "2", "3", "4", "7", "9"}
Pow10(k) == CASE k = 0 -> 1 [] k = 1 -> 10 [] k = 2 -> 100 [] k = 3 -> 1000
DecimalValue(s) ==
    LET term[i \in 0..Len(s)] ==
            IF i = 0 THEN 0 ELSE term[i - 1] + DecimalDigit(s[i]) * Pow10(Len(s) - i)
    IN  term[Len(s)]
LastFour(s) == [i \in 1..(IF Len(s) < 4 THEN Len(s) ELSE 4) |->
                    s[Len(s) - (IF Len(s) < 4 THEN Len(s) ELSE 4) + i]]
AllDecimal(s) == Len(s) > 0 /\ \A i \in 1..Len(s) : s[i] \in DecimalChars
Started == AgentRun /\ aState # "starting"

C9_AsStated ==
    AgentRun /\ aState = "listening" /\ sdkPort # NoPort => sdkPort = aPort

\* C9 (amended): for every agentId, when the client library's agentPortBase is 4021
\* (given, or omitted or 0 and so defaulted), the port queryAgent sends to is the
\* port the service started with that agentId listens on.
C9_PortsAgree ==
    AgentRun /\ aState = "listening" /\ sdkPort # NoPort
             /\ sdkOpts \in {Undefined, Num(0), Num(4021)}
        => sdkPort = aPort

C9_Witness ==
    /\ AgentRun /\ aState = "listening" /\ sdkOpts = Undefined
    /\ argvId = Str(<<"B","-","-","0","0","7">>)
    /\ sdkPort = Num(4014) /\ aPc = "routing"

\* C10: when the last four characters of agentId do not parse as an integer the
\* service ends in a startup error and never listens on any port.
C10_NoListenOnNaN ==
    Started /\ ParseInt(LastFour(AgentId(argvId).s)) = NaN
        => aState = "crashed" /\ aPc = "idle" /\ ~aHandlerRan

C10_Witness ==
    /\ Started /\ argvId = Str(<<"-", "x", "7">>)
    /\ aState = "crashed" /\ sdkPort # NoPort

Range(seq) == {seq[i] : i \in 1..Len(seq)}
\* the response the settled client library call received, if it received one
SdkGotResponse ==
    /\ sdkPc = "settled"
    /\ IF proc = "server.js" THEN pPc = "done" ELSE aPc = "done"
SdkResponse == IF proc = "server.js" THEN pResp ELSE aResp

\* C11: every REST method of the client library, queryAgent included, makes exactly
\* one outbound request per call and returns the parsed JSON body, or on a
\* non-success status fails with an error carrying the status and the response text.
C11_ErrorCarriesStatusAndText ==
    sdkPc = "settled" =>
        /\ sdkCalls = 1
        /\ SdkGotResponse =>
             IF SdkResponse.status >= 200 /\ SdkResponse.status <= 299
             THEN sdkResult = [threw |-> FALSE, value |-> SdkResponse.body]
             ELSE /\ sdkResult.threw
                  /\ ToString(SdkResponse.status) \in Range(sdkResult.message)
                  /\ Range(SdkResponse.body.error.s) \subseteq Range(sdkResult.message)

NonEmptyString(v) == v.t = "string" /\ v.s # << >>
FirstChoiceContent(body) ==
    IF body.o.choices.t = "array" /\ Len(body.o.choices.a) > 0
       /\ body.o.choices.a[1].t = "object" /\ body.o.choices.a[1].o.message.t = "object"
    THEN body.o.choices.a[1].o.message.o.content
    ELSE Undefined
Placeholder == Str(<<"{\"result\": \"X4A Agent: No data available.\"}">>)

\* C12: in both services every HTTP 200 response has a result that is a non-empty
\* string, the fixed placeholder when the first choice's content is absent, null or
\* empty.
C12_ResultNonEmpty ==
    /\ ProxyDone /\ pResp.status = 200 =>
         /\ HasResult(pResp) /\ NonEmptyString(pResp.body.result)
         /\ Absent(FirstChoiceContent(pUp.body)) => pResp.body.result = Placeholder
    /\ AgentRun /\ aPc = "done" /\ aResp.status = 200 =>
         /\ HasResult(aResp) /\ NonEmptyString(aResp.body.result)
         /\ Absent(FirstChoiceContent(aUp.body)) => aResp.body.result = Placeholder

\* C13: the agent service never calls the completion API for a POST /query whose
\* query is missing or empty.
C13_QueryRequired ==
    AgentRun /\ aCalls > 0 => ~Absent(aReq.query)

\* C14: the model name the proxy sends upstream is XAI_MODEL whenever it is set.
C14_ModelFromEnv ==
    proc = "server.js" /\ pCalls > 0 /\ ~Absent(xaiModel) => pModel = xaiModel

ProxyUpstreamFailed ==
    ProxyDone /\ \/ pUp.kind = "reject"
                 \/ pUp.kind = "response" /\ (pUp.status < 200 \/ pUp.status > 299)

C16_TypeOptional ==
    /\ proc = "server.js" /\ pPc # "idle" /\ KeyConfigured
    /\ ~Absent(pReq.id) /\ ~Absent(pReq.query) /\ pReq.type = Undefined
    => pCalls = 1

\* C17: started with no arguments, the agent service derives an integer port from
\* the default agent id and listens on it.
C17_DefaultIdListens ==
    Started /\ argvId = Undefined => aPort.t = "number" /\ aState = "listening"

\* C18: with the key configured, the proxy never answers the body submitGrokQuery
\* sends with HTTP 400.
C18_SdkBodyValid ==
    /\ proc = "server.js" /\ sdkPc = "waiting" /\ pPc = "done" /\ KeyConfigured
    /\ ~Absent(pReq.id) /\ ~Absent(pReq.type)
    => pResp.status # 400

\* C19: whenever the last four characters of agentId parse as an integer, the derived
\* port lies in basePort .. basePort + 999, in the service and in the client library.
C19_PortInRange ==
    /\ Started /\ aPort.t = "number" => aPort.n >= 4021 /\ aPort.n <= 4021 + 999
    /\ AgentRun /\ sdkPort.t = "number" =>
         LET base == IF sdkOpts \in {Undefined, Num(0)} THEN 4021 ELSE sdkOpts.n
         IN  sdkPort.n >= base /\ sdkPort.n <= base + 999

====
